---- MODULE Spec2Model ----
(***************************************************************************)
(* The breakpoint registry and trip evaluator of                           *)
(* shared/tools/debug/breakpoint.py (class Breakpoint).                     *)
(*                                                                         *)
(* Class state: _id_counter, _instances (id -> breakpoint),                *)
(* _break_locations (location tuple -> set of breakpoints).                *)
(* Object state: _id (slot, unset until _add), hits, enabled[party],       *)
(* ignored[party]; filename/line_number/function_name/temporary/condition  *)
(* are fixed by __init__.                                                  *)
(*                                                                         *)
(* Each classmethod/method is one action.  call, exc, relevant and         *)
(* resolved record the last call, the exception it raised ("" for none)    *)
(* and what it returned.                                                   *)
(***************************************************************************)
EXTENDS Integers, Sequences, FiniteSets, TLC

\* ---------------------------------------------------------------- bounds
\* largest num_passes handed to ignore()
MaxIgnore == 1
\* longest collection handed to resolve_breakpoints()
MaxRefs == 2
\* relevant_breakpoints is not called once a breakpoint has this many hits
MaxHits == 2

\* ------------------------------------------------------- program values
\* self._line_number = None
NoneLine == 0
\* the _id slot before _add sets it (reading it raises AttributeError)
NoId == 0

Parties == {"P1", "P2"}
Breakpoints == {"b1", "b2"}

\* location arguments of __init__: an int, or a string
IntArg(n) == [isint |-> TRUE, n |-> n, s |-> ""]
StrArg(s) == [isint |-> FALSE, n |-> 0, s |-> s]

\* __init__: int(location) succeeds -> line breakpoint, ValueError -> function
\* breakpoint.  hits = 0, enabled = defaultdict(bool), ignored = defaultdict(int).
__init__(a) ==
  [filename      |-> a.filename,
   line_number   |-> IF a.location.isint THEN a.location.n ELSE NoneLine,
   function_name |-> IF a.location.isint THEN "" ELSE a.location.s,
   temporary     |-> a.temporary,
   condition     |-> a.condition]

\* The Breakpoint(...) constructions of a session:
\*   b1 = Breakpoint("a.py", 10, temporary=True, condition="x > 0")
\*   b2 = Breakpoint("a.py", "foo")     or     b2 = Breakpoint("a.py", 10)
Constructions ==
  {[b \in Breakpoints |->
      IF b = "b1"
      THEN [filename |-> "a.py", location |-> IntArg(10),
            temporary |-> TRUE, condition |-> "x > 0"]
      ELSE [filename |-> "a.py", location |-> l,
            temporary |-> FALSE, condition |-> ""]] : l \in {StrArg("foo"), IntArg(10)}}

VARIABLES object, _id, _id_counter, _instances, _break_locations,
          hits, enabled, ignored,
          call, exc, relevant, resolved,
          thread,
          systemState, hijack, got

filename(b) == object[b].filename
line_number(b) == object[b].line_number
function_name(b) == object[b].function_name
temporary(b) == object[b].temporary
condition(b) == object[b].condition

\* Dictionary keys.  A location is the tuple (filename, function_name or
\* line_number); a str is a different key that never equals a tuple.
TupleKey(file, name, line) == [kind |-> "tuple", file |-> file, name |-> name, line |-> line]
StrKey(s) == [kind |-> "str", file |-> s, name |-> "", line |-> NoneLine]

location(b) ==
  IF function_name(b) # ""
  THEN TupleKey(filename(b), function_name(b), NoneLine)
  ELSE TupleKey(filename(b), "", line_number(b))

registry == <<_id, _id_counter, _instances, _break_locations>>
vars == <<object, _id, _id_counter, _instances, _break_locations,
          hits, enabled, ignored, call, exc, relevant, resolved,
          thread, systemState, hijack, got>>

\* ------------------------------------------------------------ call inputs
\* An execution position: the frame handed to relevant_breakpoints.
\*   f_back   where co_name is bound in the calling scope: "f_locals",
\*            "f_globals", or "KeyError" (bound in neither)
\*   eval     what eval(condition, f_globals, f_locals) does in this frame
AllFrames ==
  [co_filename : {"a.py", "b.py"}, f_lineno : {10, 11}, co_name : {"foo", "bar"},
   f_back : {"f_locals", "f_globals", "KeyError"},
   eval : {"truthy", "falsy", "raises"}]

\* The positions reported: in a.py, lines 10 and 11 inside foo (every way the
\* lookup of foo can go) and inside bar, the condition evaluated every way on
\* line 10; and one position in b.py, where no breakpoint is set.
Frames ==
  {f \in AllFrames :
     /\ f.co_filename = "b.py" => f.f_lineno = 10 /\ f.co_name = "bar"
     /\ f.co_name = "bar" => f.f_back = "KeyError"
     /\ f.f_lineno = 11 => f.eval = "truthy"
     /\ f.f_back # "f_globals" /\ f.co_name = "foo" => f.eval = "truthy"
     /\ f.co_filename = "b.py" => f.eval = "truthy"}

NoFrame == [co_filename |-> "", f_lineno |-> NoneLine, co_name |-> "",
            f_back |-> "KeyError", eval |-> "falsy"]

\* function.func_code.co_firstlineno of the functions of the program under debug
co_firstlineno(name) == IF name = "foo" THEN 10 ELSE 11

\* A reference handed to resolve_breakpoints: a Breakpoint instance, an int,
\* a str, or a location tuple.
BpRef(b) == [kind |-> "Breakpoint", bp |-> b, n |-> 0, s |-> "", name |-> ""]
IntRef(n) == [kind |-> "int", bp |-> "", n |-> n, s |-> "", name |-> ""]
StrRef(s) == [kind |-> "str", bp |-> "", n |-> 0, s |-> s, name |-> ""]
TupleRef(k) == [kind |-> "tuple", bp |-> "", n |-> k.line, s |-> k.file, name |-> k.name]

Refs ==
  {BpRef("b2"), IntRef(1), StrRef("a.py"), TupleRef(TupleKey("a.py", "", 10))}

RECURSIVE SeqsUpTo(_, _)
SeqsUpTo(S, n) ==
  IF n = 0 THEN {<<>>}
  ELSE LET shorter == SeqsUpTo(S, n - 1)
       IN shorter \cup {Append(q, x) : q \in {r \in shorter : Len(r) = n - 1}, x \in S}

\* The argument of resolve_breakpoints: one reference (iscoll = FALSE, a
\* location tuple included) or a list of references.
ResolveArgs ==
  {[iscoll |-> FALSE, items |-> <<r>>] : r \in Refs}
    \cup {[iscoll |-> TRUE, items |-> q] : q \in SeqsUpTo(Refs, MaxRefs)}

NoArg == [iscoll |-> TRUE, items |-> <<>>]

Call(op, b, p, n, f, a) ==
  [op |-> op, bp |-> b, party |-> p, n |-> n, frame |-> f, arg |-> a]

\* No call is in progress: the caller has taken the result of the last one.
NoCall == Call("", "", "", 0, NoFrame, NoArg)

idle == call = NoCall

\* The threads that call into the class at the same time.  The class holds no
\* lock, so a call made by a thread is a sequence of steps, one per access to
\* the state the class shares, that the steps of another thread may interleave.
Threads == {"t1", "t2"}

\* What a thread holds of its call: the statement it is at (pc), the call and
\* its arguments, and the locals of the method.
NoThread ==
  [pc |-> "", op |-> "", bp |-> "", party |-> "", frame |-> NoFrame,
   found |-> FALSE, n |-> 0,
   by_line |-> [isset |-> FALSE, members |-> {}, items |-> <<>>],
   by_function |-> [isset |-> FALSE, members |-> {}, items |-> <<>>],
   exc |-> "", relevant |-> {}]

\* ------------------------------------------------------------- SysHijack
\* The four attributes of a thread's system state that a SysHijack redirects, in
\* the order __init__, _install and _restore go through them.
Streams == <<"stdin", "stdout", "stderr", "displayhook">>

\* The attributes of a system state the model follows.  `_init_time` is no slot
\* of SysHijack, so __setattr__ hands it on to the system state (lines 129-134).
Attributes == {Streams[i] : i \in 1..Len(Streams)} \cup {"_init_time"}

Hijackers == {"h1", "h2"}

\* An endpoint is known by whose it is (a thread's own, or the proxy of a
\* hijacker) and which attribute it was made for.
Endpoint(of, attribute) == [of |-> of, attribute |-> attribute]

\* An unset slot or attribute
NoEndpoint == Endpoint("", "")

\* self._io_proxy.<stream>: the endpoints of the ProxyIO made for hijacker h
_io_proxy(h, stream) == Endpoint(h, stream)

\* getThreadState(t).systemState of a thread nothing was installed on
ownSystemState(t) ==
  [a \in Attributes |-> IF a = "_init_time" THEN NoEndpoint ELSE Endpoint(t, a)]

\* A SysHijack not constructed yet.  state is "new", "constructing", "live" or
\* "dead" (finalized); pc is the line of the statement to run next, 0 outside a
\* method; _original holds the four _original_<stream> slots, in the order of
\* Streams; before is what the four streams of the target thread were when the
\* constructor was entered; finalizing says that __del__ is what runs
\* _restore; disposals counts the runs of _restore that have returned.
NoHijack ==
  [state |-> "new", pc |-> 0, _target_thread |-> "",
   _original |-> [i \in 1..Len(Streams) |-> NoEndpoint],
   before |-> [i \in 1..Len(Streams) |-> NoEndpoint],
   finalizing |-> FALSE, disposals |-> 0]

\* No accessor was read
NoGot == [h |-> "", caller |-> "", stream |-> 0, value |-> NoEndpoint]

hijacking == <<systemState, hijack, got>>

\* The state outside the sequential specification of Breakpoint
elsewhere == <<thread, hijacking>>

\* ------------------------------------------------------------------ Init
Init ==
  /\ object \in {[b \in Breakpoints |-> __init__(c[b])] : c \in Constructions}
  /\ _id = [b \in Breakpoints |-> NoId]
  /\ _id_counter = 0
  /\ _instances = <<>>
  /\ _break_locations = <<>>
  /\ hits = [b \in Breakpoints |-> 0]
  /\ enabled = [b \in Breakpoints |-> [p \in Parties |-> FALSE]]
  /\ ignored = [b \in Breakpoints |-> [p \in Parties |-> 0]]
  /\ call = NoCall
  /\ exc = ""
  /\ relevant = {}
  /\ resolved = <<>>
  /\ thread = <<>>
  /\ systemState = [t \in Threads |-> ownSystemState(t)]
  /\ hijack = <<>>
  /\ got = NoGot

\* --------------------------------------------------------------- registry
\* d[k] = v on a dict
SetItem(d, k, v) == [x \in DOMAIN d \cup {k} |-> IF x = k THEN v ELSE d[x]]
\* del d[k]
DelItem(d, k) == [x \in DOMAIN d \ {k} |-> d[x]]

\* A faulty next_id: the id taken from the size of the id index
next_id_from_size == Cardinality(DOMAIN _instances) + 1

\* cls._id_counter += 1; return cls._id_counter
next_id == _id_counter + 1

\* A faulty test in _add: "is in the id index" in place of "has an id"
has_id_in_index(b) == _id[b] # NoId /\ _id[b] \in DOMAIN _instances

\* `if self._id: return` inside try: the slot is set (ids start at 1)
has_id(b) == _id[b] # NoId

\* A faulty _add: the location index is left as it is
add_location_skipped(locs, b) == locs

\* The location index after `self` is added under self.location
add_location(locs, b) ==
  IF location(b) \in DOMAIN locs
  THEN [locs EXCEPT ![location(b)] = @ \cup {b}]
  ELSE SetItem(locs, location(b), {b})

_add(b) ==
  /\ idle
  /\ IF has_id(b)
     THEN UNCHANGED registry
     ELSE /\ _break_locations' = add_location(_break_locations, b)
          /\ _id_counter' = next_id
          /\ _id' = [_id EXCEPT ![b] = next_id]
          /\ _instances' = SetItem(_instances, next_id, b)
  /\ call' = Call("_add", b, "", 0, NoFrame, NoArg)
  /\ exc' = ""
  /\ relevant' = {}
  /\ resolved' = <<>>
  /\ UNCHANGED <<object, hits, enabled, ignored>>

\* self.enabled.clear()
clear_enabled(en, b) == [en EXCEPT ![b] = [p \in Parties |-> FALSE]]

\* A faulty _remove: the id index is left as it is
del_instance_skipped(inst, b) == inst

\* The id index after `del self._instances[self.id]`
del_instance(inst, b) == DelItem(inst, _id[b])

\* A faulty _remove: the whole set of the location is emptied
remove_location_all(locs, b) == [locs EXCEPT ![location(b)] = {}]

\* The location index after `self._break_locations[self.location].remove(self)`
remove_location(locs, b) == [locs EXCEPT ![location(b)] = @ \ {b}]

\* _remove on the state (en, inst, locs): the statements run in order and the
\* first that raises ends the call with what ran before it kept.
\*   self.id with the slot unset          -> AttributeError
\*   del of an id that is not in the dict -> KeyError
\*   set.remove of a non-member           -> KeyError
removed(b, en, inst, locs) ==
  LET en1 == clear_enabled(en, b)
  IN IF ~has_id(b)
     THEN [enabled |-> en1, inst |-> inst, locs |-> locs, exc |-> "AttributeError"]
     ELSE IF _id[b] \notin DOMAIN inst
     THEN [enabled |-> en1, inst |-> inst, locs |-> locs, exc |-> "KeyError"]
     ELSE IF location(b) \notin DOMAIN locs \/ b \notin locs[location(b)]
     THEN [enabled |-> en1, inst |-> del_instance(inst, b), locs |-> locs,
           exc |-> "KeyError"]
     ELSE [enabled |-> en1, inst |-> del_instance(inst, b),
           locs |-> remove_location(locs, b), exc |-> ""]

_remove(b) ==
  LET r == removed(b, enabled, _instances, _break_locations)
  IN /\ idle
     /\ enabled' = r.enabled
     /\ _instances' = r.inst
     /\ _break_locations' = r.locs
     /\ exc' = r.exc
     /\ call' = Call("_remove", b, "", 0, NoFrame, NoArg)
     /\ relevant' = {}
     /\ resolved' = <<>>
     /\ UNCHANGED <<object, _id, _id_counter, hits, ignored>>

\* ------------------------------------------------------ per-party settings
enable(b, p) ==
  /\ idle
  /\ enabled' = [enabled EXCEPT ![b][p] = TRUE]
  /\ call' = Call("enable", b, p, 0, NoFrame, NoArg)
  /\ exc' = ""
  /\ relevant' = {}
  /\ resolved' = <<>>
  /\ UNCHANGED <<object, registry, hits, ignored>>

disable(b, p) ==
  /\ idle
  /\ enabled' = [enabled EXCEPT ![b][p] = FALSE]
  /\ call' = Call("disable", b, p, 0, NoFrame, NoArg)
  /\ exc' = ""
  /\ relevant' = {}
  /\ resolved' = <<>>
  /\ UNCHANGED <<object, registry, hits, ignored>>

\* A faulty ignore: the count is set for every party
ignore_for_all(b, p, n) ==
  /\ idle
  /\ ignored' = [ignored EXCEPT ![b] = [q \in Parties |-> n]]
  /\ call' = Call("ignore", b, p, n, NoFrame, NoArg)
  /\ exc' = ""
  /\ relevant' = {}
  /\ resolved' = <<>>
  /\ UNCHANGED <<object, registry, hits, enabled>>

ignore(b, p, n) ==
  /\ idle
  /\ ignored' = [ignored EXCEPT ![b][p] = n]
  /\ call' = Call("ignore", b, p, n, NoFrame, NoArg)
  /\ exc' = ""
  /\ relevant' = {}
  /\ resolved' = <<>>
  /\ UNCHANGED <<object, registry, hits, enabled>>

\* ------------------------------------------------------- resolve_breakpoints
\* `if not isinstance(breakpoint_ids, (list, tuple, set))`: a lone reference is
\* wrapped in a list; a lone location tuple is itself a tuple, so it is iterated
\* as the collection (filename, function_name or line_number).
coerce(arg) ==
  IF arg.iscoll THEN arg.items
  ELSE LET r == arg.items[1]
       IN IF r.kind = "tuple"
          THEN <<StrRef(r.s), IF r.name # "" THEN StrRef(r.name) ELSE IntRef(r.n)>>
          ELSE <<r>>

\* The members of a set in the order list.extend takes them
RECURSIVE SetToSeq(_)
SetToSeq(S) ==
  IF S = {} THEN <<>>
  ELSE LET x == CHOOSE y \in S : TRUE IN <<x>> \o SetToSeq(S \ {x})

\* cls._instances[n]
instance_lookup(inst, n) ==
  IF n \in DOMAIN inst
  THEN [exc |-> "", found |-> <<inst[n]>>]
  ELSE [exc |-> "KeyError", found |-> <<>>]

\* cls._break_locations[s] for a str s
location_lookup(locs, s) ==
  IF StrKey(s) \in DOMAIN locs
  THEN [exc |-> "", found |-> SetToSeq(locs[StrKey(s)])]
  ELSE [exc |-> "KeyError", found |-> <<>>]

\* One pass of the for loop; a reference that is neither a Breakpoint, an int
\* nor a str matches no branch and adds nothing.
resolve_one(acc, r, inst, locs) ==
  IF r.kind = "Breakpoint" THEN [acc EXCEPT !.out = Append(@, r.bp)]
  ELSE IF r.kind = "int"
  THEN LET l == instance_lookup(inst, r.n)
       IN [exc |-> l.exc, out |-> acc.out \o l.found]
  ELSE IF r.kind = "str"
  THEN LET l == location_lookup(locs, r.s)
       IN [exc |-> l.exc, out |-> acc.out \o l.found]
  ELSE acc

RECURSIVE resolve_loop(_, _, _, _)
resolve_loop(acc, items, inst, locs) ==
  IF items = <<>> \/ acc.exc # "" THEN acc
  ELSE resolve_loop(resolve_one(acc, Head(items), inst, locs), Tail(items), inst, locs)

\* What resolve_breakpoints(arg) does on the indices (inst, locs):
\* [exc, out], out being the list built when the exception was raised.
resolve(arg, inst, locs) ==
  resolve_loop([exc |-> "", out |-> <<>>], coerce(arg), inst, locs)

resolve_breakpoints(arg) ==
  LET r == resolve(arg, _instances, _break_locations)
  IN /\ idle
     /\ exc' = r.exc
     /\ resolved' = IF r.exc = "" THEN r.out ELSE <<>>
     /\ call' = Call("resolve_breakpoints", "", "", 0, NoFrame, arg)
     /\ relevant' = {}
     /\ UNCHANGED <<object, registry, hits, enabled, ignored>>

\* ------------------------------------------------------ relevant_breakpoints
frame_location_by_line(frame) == TupleKey(frame.co_filename, "", frame.f_lineno)

frame_location_by_function(frame) == TupleKey(frame.co_filename, frame.co_name, NoneLine)

\* cls._break_locations.get(key, []): the set stored under key, or the list []
get(locs, key) ==
  IF key \in DOMAIN locs
  THEN [isset |-> TRUE, members |-> locs[key], items |-> <<>>]
  ELSE [isset |-> FALSE, members |-> {}, items |-> <<>>]

\* `x + y`: list + list concatenates; a set on either side has no `+`.
concat(x, y) ==
  IF x.isset \/ y.isset
  THEN [exc |-> "TypeError", items |-> <<>>]
  ELSE [exc |-> "", items |-> x.items \o y.items]

\* frame_scope.f_back.f_locals[name], else f_globals[name]
_function_first_line(b, frame) == co_firstlineno(function_name(b))

trip(b, frame) ==
  IF function_name(b) = "" THEN line_number(b) = frame.f_lineno
  ELSE IF function_name(b) # frame.co_name THEN FALSE
  ELSE IF frame.f_back = "KeyError" THEN FALSE
  ELSE frame.f_lineno = _function_first_line(b, frame)

\* relevant.add(breakpoint); if breakpoint.temporary: breakpoint._remove().
\* Inside the try of the conditional branch the bare except swallows what
\* _remove raises; in the unconditional branch it propagates.
fire(st, b, in_try) ==
  LET s2 == [st EXCEPT !.relevant = @ \cup {b}]
  IN IF ~temporary(b) THEN s2
     ELSE LET r == removed(b, s2.enabled, s2.inst, s2.locs)
          IN [s2 EXCEPT !.enabled = r.enabled, !.inst = r.inst, !.locs = r.locs,
                        !.exc = IF in_try THEN "" ELSE r.exc]

\* `if ignored > 0: ignored -= 1; continue / else: add, retire`
pass_or_fire(st, b, party, in_try) ==
  IF st.ignored[b][party] > 0
  THEN [st EXCEPT !.ignored[b][party] = @ - 1]
  ELSE fire(st, b, in_try)

\* One pass of the candidate loop
visit(st, b, frame, party) ==
  IF ~st.enabled[b][party] THEN st
  ELSE IF ~trip(b, frame) THEN st
  ELSE LET s1 == [st EXCEPT !.hits[b] = @ + 1]
       IN IF condition(b) = "" THEN pass_or_fire(s1, b, party, FALSE)
          ELSE IF frame.eval = "raises" THEN [s1 EXCEPT !.relevant = @ \cup {b}]
          ELSE IF frame.eval = "truthy" THEN pass_or_fire(s1, b, party, TRUE)
          ELSE s1

RECURSIVE scan(_, _, _, _)
scan(st, possible, frame, party) ==
  IF possible = <<>> \/ st.exc # "" THEN st
  ELSE scan(visit(st, Head(possible), frame, party), Tail(possible), frame, party)

\* What relevant_breakpoints(frame, party) does on the state st
evaluate(st, frame, party) ==
  LET possible == concat(get(st.locs, frame_location_by_line(frame)),
                         get(st.locs, frame_location_by_function(frame)))
  IN IF possible.exc # ""
     THEN [st EXCEPT !.exc = possible.exc]
     ELSE scan(st, possible.items, frame, party)

relevant_breakpoints(frame, party) ==
  LET st == evaluate([hits |-> hits, ignored |-> ignored, enabled |-> enabled,
                      inst |-> _instances, locs |-> _break_locations,
                      relevant |-> {}, exc |-> ""], frame, party)
  IN /\ idle
     /\ \A b \in Breakpoints : hits[b] < MaxHits
     /\ hits' = st.hits
     /\ ignored' = st.ignored
     /\ enabled' = st.enabled
     /\ _instances' = st.inst
     /\ _break_locations' = st.locs
     /\ exc' = st.exc
     /\ relevant' = IF st.exc = "" THEN st.relevant ELSE {}
     /\ call' = Call("relevant_breakpoints", "", party, 0, frame, NoArg)
     /\ resolved' = <<>>
     /\ UNCHANGED <<object, _id, _id_counter>>

\* The caller takes what the call returned or raised; the next call starts
\* from the registry and breakpoint state the call left.
Return ==
  /\ ~idle
  /\ call' = NoCall
  /\ exc' = ""
  /\ relevant' = {}
  /\ resolved' = <<>>
  /\ UNCHANGED <<object, registry, hits, enabled, ignored>>

\* ------------------------------------------------------------------ Next
Next ==
  \/ idle /\ UNCHANGED elsewhere /\ \E b \in Breakpoints : _add(b)
  \/ idle /\ UNCHANGED elsewhere /\ \E b \in Breakpoints : _remove(b)
  \/ idle /\ UNCHANGED elsewhere /\ \E b \in Breakpoints, p \in Parties : enable(b, p)
  \/ idle /\ UNCHANGED elsewhere /\ \E b \in Breakpoints, p \in Parties : disable(b, p)
  \/ idle /\ UNCHANGED elsewhere /\ \E b \in Breakpoints, p \in Parties, n \in 0..MaxIgnore : ignore(b, p, n)
  \/ idle /\ UNCHANGED elsewhere /\ \E f \in Frames, p \in Parties : relevant_breakpoints(f, p)
  \/ idle /\ UNCHANGED elsewhere /\ \E a \in ResolveArgs : resolve_breakpoints(a)
  \/ Return /\ UNCHANGED elsewhere

Spec == Init /\ [][Next]_vars

\* The calls that write the class or a breakpoint.  resolve_breakpoints writes
\* nothing, so these runs pass through every state of the class and of the
\* breakpoints that the runs of Spec pass through.
NextWrites ==
  \/ idle /\ UNCHANGED elsewhere /\ \E b \in Breakpoints : _add(b)
  \/ idle /\ UNCHANGED elsewhere /\ \E b \in Breakpoints : _remove(b)
  \/ idle /\ UNCHANGED elsewhere /\ \E b \in Breakpoints, p \in Parties : enable(b, p)
  \/ idle /\ UNCHANGED elsewhere /\ \E b \in Breakpoints, p \in Parties : disable(b, p)
  \/ idle /\ UNCHANGED elsewhere /\ \E b \in Breakpoints, p \in Parties, n \in 0..MaxIgnore : ignore(b, p, n)
  \/ idle /\ UNCHANGED elsewhere /\ \E f \in Frames, p \in Parties : relevant_breakpoints(f, p)
  \/ Return /\ UNCHANGED elsewhere

SpecWrites == Init /\ [][NextWrites]_vars

\* The lookups: resolve_breakpoints on every state of the two indices, which
\* only _add and _remove write in a sequential run.
NextResolve ==
  \/ idle /\ UNCHANGED elsewhere /\ \E b \in Breakpoints : _add(b)
  \/ idle /\ UNCHANGED elsewhere /\ \E b \in Breakpoints : _remove(b)
  \/ idle /\ UNCHANGED elsewhere /\ \E a \in ResolveArgs : resolve_breakpoints(a)
  \/ Return /\ UNCHANGED elsewhere

SpecResolve == Init /\ [][NextResolve]_vars

\* ------------------------------------------------------ concurrent callers
\* Each thread makes one call.  A step is one statement of the method, or one
\* read or write of the class state where a statement makes several (the
\* read-add-write of `cls._id_counter += 1`).  The first step takes the
\* arguments of the call.
\* `thread` holds the calls the threads have begun.  The locals of thread t:
locals(t) == IF t \in DOMAIN thread THEN thread[t] ELSE NoThread

at(t, label) == locals(t).pc = label

\* What no step of a concurrent caller touches: the call of the sequential
\* caller, and the hijackers
callstate == <<call, exc, relevant, resolved, hijacking>>

\* _add, line 96: `if self._id: return` inside try
_add_try(t, b) ==
  /\ at(t, "")
  /\ thread' = SetItem(thread, t,
                       [NoThread EXCEPT !.op = "_add", !.bp = b,
                          !.pc = IF has_id(b) THEN "done" ELSE "_add:98"])
  /\ UNCHANGED <<object, registry, hits, enabled, ignored, callstate>>

\* _add, line 98: `if self.location in self._break_locations`
_add_test(t) ==
  /\ at(t, "_add:98")
  /\ thread' = [thread EXCEPT
                  ![t].found = location(thread[t].bp) \in DOMAIN _break_locations,
                  ![t].pc = "_add:99"]
  /\ UNCHANGED <<object, registry, hits, enabled, ignored, callstate>>

\* _add, lines 99-101: `.add(self)` on the set found, or a new set([self])
\* stored under the location
_add_insert(t) ==
  LET b == thread[t].bp
  IN /\ at(t, "_add:99")
     /\ _break_locations' =
          IF thread[t].found
          THEN [_break_locations EXCEPT ![location(b)] = @ \cup {b}]
          ELSE SetItem(_break_locations, location(b), {b})
     /\ thread' = [thread EXCEPT ![t].pc = "next_id:68:load"]
     /\ UNCHANGED <<object, _id, _id_counter, _instances, hits, enabled, ignored,
                    callstate>>

\* next_id, line 68: the read of cls._id_counter in `cls._id_counter += 1`
next_id_load(t) ==
  /\ at(t, "next_id:68:load")
  /\ thread' = [thread EXCEPT ![t].n = _id_counter, ![t].pc = "next_id:68:store"]
  /\ UNCHANGED <<object, registry, hits, enabled, ignored, callstate>>

\* next_id, line 68: the write of the sum back to cls._id_counter
next_id_store(t) ==
  /\ at(t, "next_id:68:store")
  /\ _id_counter' = thread[t].n + 1
  /\ thread' = [thread EXCEPT ![t].pc = "next_id:69"]
  /\ UNCHANGED <<object, _id, _instances, _break_locations, hits, enabled,
                 ignored, callstate>>

\* next_id, line 69: `return cls._id_counter` reads the counter again
next_id_return(t) ==
  /\ at(t, "next_id:69")
  /\ thread' = [thread EXCEPT ![t].n = _id_counter, ![t].pc = "_add:103"]
  /\ UNCHANGED <<object, registry, hits, enabled, ignored, callstate>>

\* _add, line 103: `self._id = ` what next_id returned
_add_set_id(t) ==
  /\ at(t, "_add:103")
  /\ _id' = [_id EXCEPT ![thread[t].bp] = thread[t].n]
  /\ thread' = [thread EXCEPT ![t].pc = "_add:104"]
  /\ UNCHANGED <<object, _id_counter, _instances, _break_locations, hits,
                 enabled, ignored, callstate>>

\* _add, line 104: `self._instances[self.id] = self`
_add_index(t) ==
  LET b == thread[t].bp
  IN /\ at(t, "_add:104")
     /\ _instances' = SetItem(_instances, _id[b], b)
     /\ thread' = [thread EXCEPT ![t].pc = "done"]
     /\ UNCHANGED <<object, _id, _id_counter, _break_locations, hits, enabled,
                    ignored, callstate>>

\* _remove, line 108: `self.enabled.clear()`
_remove_clear(t, b) ==
  /\ at(t, "")
  /\ enabled' = clear_enabled(enabled, b)
  /\ thread' = SetItem(thread, t,
                       [NoThread EXCEPT !.op = "_remove", !.bp = b,
                                        !.pc = "_remove:109"])
  /\ UNCHANGED <<object, registry, hits, ignored, callstate>>

\* _remove, line 109: `del self._instances[self.id]`
_remove_del(t) ==
  LET b == thread[t].bp
      raised == IF ~has_id(b) THEN "AttributeError"
                ELSE IF _id[b] \notin DOMAIN _instances THEN "KeyError"
                ELSE ""
  IN /\ at(t, "_remove:109")
     /\ _instances' = IF raised = "" THEN del_instance(_instances, b)
                      ELSE _instances
     /\ thread' = [thread EXCEPT ![t].exc = raised,
                     ![t].pc = IF raised = "" THEN "_remove:110" ELSE "done"]
     /\ UNCHANGED <<object, _id, _id_counter, _break_locations, hits, enabled,
                    ignored, callstate>>

\* _remove, line 110: `self._break_locations[self.location].remove(self)`
_remove_location(t) ==
  LET b == thread[t].bp
      raised == IF \/ location(b) \notin DOMAIN _break_locations
                   \/ b \notin _break_locations[location(b)]
                THEN "KeyError" ELSE ""
  IN /\ at(t, "_remove:110")
     /\ _break_locations' = IF raised = "" THEN remove_location(_break_locations, b)
                            ELSE _break_locations
     /\ thread' = [thread EXCEPT ![t].exc = raised, ![t].pc = "done"]
     /\ UNCHANGED <<object, _id, _id_counter, _instances, hits, enabled, ignored,
                    callstate>>

\* relevant_breakpoints, line 167: the lookup under the line key
relevant_by_line(t, frame, party) ==
  /\ at(t, "")
  /\ thread' = SetItem(thread, t,
                       [NoThread EXCEPT
                          !.op = "relevant_breakpoints", !.frame = frame,
                          !.party = party,
                          !.by_line = get(_break_locations, frame_location_by_line(frame)),
                          !.pc = "relevant_breakpoints:168"])
  /\ UNCHANGED <<object, registry, hits, enabled, ignored, callstate>>

\* relevant_breakpoints, line 168: the lookup under the function key
relevant_by_function(t) ==
  /\ at(t, "relevant_breakpoints:168")
  /\ thread' = [thread EXCEPT
                  ![t].by_function =
                     get(_break_locations, frame_location_by_function(thread[t].frame)),
                  ![t].pc = "relevant_breakpoints:167:+"]
  /\ UNCHANGED <<object, registry, hits, enabled, ignored, callstate>>

\* relevant_breakpoints, lines 167-218: the `+` of the two lookups, and the loop
\* over its result.  The sum is a list only when both lookups gave the default
\* [], so the loop runs over no candidate and is one step.
relevant_loop(t) ==
  LET possible == concat(thread[t].by_line, thread[t].by_function)
      st == scan([hits |-> hits, ignored |-> ignored, enabled |-> enabled,
                  inst |-> _instances, locs |-> _break_locations,
                  relevant |-> {}, exc |-> possible.exc],
                 possible.items, thread[t].frame, thread[t].party)
  IN /\ at(t, "relevant_breakpoints:167:+")
     /\ hits' = st.hits
     /\ ignored' = st.ignored
     /\ enabled' = st.enabled
     /\ _instances' = st.inst
     /\ _break_locations' = st.locs
     /\ thread' = [thread EXCEPT ![t].exc = st.exc, ![t].relevant = st.relevant,
                                 ![t].pc = "done"]
     /\ UNCHANGED <<object, _id, _id_counter, callstate>>

\* The threads start on a class no breakpoint was added to, or on one where
\* every breakpoint was added, in order, and enabled for every party.
InitThreads ==
  /\ object \in {[b \in Breakpoints |-> __init__(c[b])] : c \in Constructions}
  /\ \E added \in BOOLEAN :
       /\ _id = [b \in Breakpoints |->
                   IF ~added THEN NoId ELSE IF b = "b1" THEN 1 ELSE 2]
       /\ _id_counter = IF added THEN 2 ELSE 0
       /\ _instances = IF added THEN <<"b1", "b2">> ELSE <<>>
       /\ _break_locations =
            IF added THEN add_location(add_location(<<>>, "b1"), "b2") ELSE <<>>
       /\ enabled = [b \in Breakpoints |-> [p \in Parties |-> added]]
  /\ hits = [b \in Breakpoints |-> 0]
  /\ ignored = [b \in Breakpoints |-> [p \in Parties |-> 0]]
  /\ call = NoCall
  /\ exc = ""
  /\ relevant = {}
  /\ resolved = <<>>
  /\ thread = <<>>
  /\ systemState = [t \in Threads |-> ownSystemState(t)]
  /\ hijack = <<>>
  /\ got = NoGot

NextThreads ==
  \/ \E t \in Threads, b \in Breakpoints : _add_try(t, b)
  \/ \E t \in Threads : _add_test(t)
  \/ \E t \in Threads : _add_insert(t)
  \/ \E t \in Threads : next_id_load(t)
  \/ \E t \in Threads : next_id_store(t)
  \/ \E t \in Threads : next_id_return(t)
  \/ \E t \in Threads : _add_set_id(t)
  \/ \E t \in Threads : _add_index(t)
  \/ \E t \in Threads, b \in Breakpoints : _remove_clear(t, b)
  \/ \E t \in Threads : _remove_del(t)
  \/ \E t \in Threads : _remove_location(t)
  \/ \E t \in Threads, f \in Frames, p \in Parties : relevant_by_line(t, f, p)
  \/ \E t \in Threads : relevant_by_function(t)
  \/ \E t \in Threads : relevant_loop(t)

SpecThreads == InitThreads /\ [][NextThreads]_vars

\* The per-party settings and the evaluations that read them, on a class no
\* breakpoint was added to and on one where every breakpoint was added.
NextSettings ==
  \/ idle /\ UNCHANGED elsewhere /\ \E b \in Breakpoints, p \in Parties : enable(b, p)
  \/ idle /\ UNCHANGED elsewhere /\ \E b \in Breakpoints, p \in Parties : disable(b, p)
  \/ idle /\ UNCHANGED elsewhere /\ \E b \in Breakpoints, p \in Parties, n \in 0..MaxIgnore : ignore(b, p, n)
  \/ idle /\ UNCHANGED elsewhere /\ \E f \in Frames, p \in Parties : relevant_breakpoints(f, p)
  \/ Return /\ UNCHANGED elsewhere

SpecSettings == InitThreads /\ [][NextSettings]_vars

\* ------------------------------------------------------ SysHijack methods
\* The methods of the hijackers are called one at a time (a hijacker belongs to
\* the one session that made it); a step is one statement, so the target thread
\* runs, and reads its streams, between any two of them.
MaxDisposals == 2

breakpoints == <<object, registry, hits, enabled, ignored, call, exc, relevant,
                 resolved, thread>>

\* `hijack` holds the hijackers constructed.  The slots of hijacker h:
slots(h) == IF h \in DOMAIN hijack THEN hijack[h] ELSE NoHijack

\* Hijacker h is inside one of its methods
busy(h) == slots(h).pc # 0

quiet == \A h \in Hijackers : ~busy(h)

\* self._thread_sys.<stream> of hijacker h
_thread_sys(h, i) == systemState[slots(h)._target_thread][Streams[i]]

\* The four streams of the system state of thread t
streams_of(t) == [i \in 1..Len(Streams) |-> systemState[t][Streams[i]]]

\* The system states after `self._thread_sys.<attribute> = value` by hijacker h
set_thread_sys(h, attribute, value) ==
  [systemState EXCEPT ![slots(h)._target_thread][attribute] = value]

\* __init__, lines 24-28: the target thread and the proxy are kept in their
\* slots; _init_time goes to the system state of the target thread.
SysHijack(h, target) ==
  /\ quiet
  /\ slots(h).state = "new"
  /\ hijack' = SetItem(hijack, h,
                       [NoHijack EXCEPT !.state = "constructing",
                                        !._target_thread = target,
                                        !.before = streams_of(target),
                                        !.pc = 30])
  /\ systemState' = [systemState EXCEPT
                       ![target]["_init_time"] = Endpoint(h, "_init_time")]
  /\ UNCHANGED <<breakpoints, got>>

\* __init__, lines 30-33: one of `self._original_<stream> = self._thread_sys.<stream>`
capture(h) ==
  LET i == slots(h).pc - 29
  IN /\ slots(h).pc \in 30..33
     /\ hijack' = [hijack EXCEPT ![h]._original[i] = _thread_sys(h, i),
                                 ![h].pc = IF i = 4 THEN 44 ELSE @ + 1]
     /\ UNCHANGED <<breakpoints, systemState, got>>

\* The system states after `self._thread_sys.<stream> = self._io_proxy.<stream>`
installed(h, i) == set_thread_sys(h, Streams[i], _io_proxy(h, Streams[i]))

\* _install, lines 44-47, called at line 35: one of the four assignments; after
\* the last the constructor returns.
_install(h) ==
  LET i == slots(h).pc - 43
  IN /\ slots(h).pc \in 44..47
     /\ systemState' = installed(h, i)
     /\ hijack' = [hijack EXCEPT ![h].pc = IF i = 4 THEN 0 ELSE @ + 1,
                                 ![h].state = IF i = 4 THEN "live" ELSE @]
     /\ UNCHANGED <<breakpoints, got>>

\* The system states after `self._thread_sys.<stream> = self._original_<stream>`
restored(h, i) == set_thread_sys(h, Streams[i], slots(h)._original[i])

\* _restore called by the session, line 51
_restore_call(h) ==
  /\ quiet
  /\ slots(h).state = "live"
  /\ slots(h).disposals < MaxDisposals
  /\ systemState' = restored(h, 1)
  /\ hijack' = [hijack EXCEPT ![h].pc = 52]
  /\ UNCHANGED <<breakpoints, got>>

\* __del__, line 116, when the hijacker is collected: _restore, line 51
__del__(h) ==
  /\ quiet
  /\ slots(h).state = "live"
  /\ systemState' = restored(h, 1)
  /\ hijack' = [hijack EXCEPT ![h].pc = 52, ![h].finalizing = TRUE]
  /\ UNCHANGED <<breakpoints, got>>

\* _restore, lines 52-54: one of the other three assignments; after the last
\* the method returns, and a hijacker that was being collected is gone.
_restore(h) ==
  LET i == slots(h).pc - 50
  IN /\ slots(h).pc \in 52..54
     /\ systemState' = restored(h, i)
     /\ hijack' = [hijack EXCEPT
                     ![h].pc = IF i = 4 THEN 0 ELSE @ + 1,
                     ![h].disposals = IF i = 4 THEN @ + 1 ELSE @,
                     ![h].state = IF i = 4 /\ slots(h).finalizing THEN "dead" ELSE @]
     /\ UNCHANGED <<breakpoints, got>>

\* A faulty accessor: the proxy endpoint whoever asks
accessor_proxy_always(h, caller, i) == _io_proxy(h, Streams[i])

\* The properties stdin, stdout, stderr, displayhook (lines 66-92) read by the
\* thread `caller`: Thread.currentThread() is self._target_thread
accessor(h, caller, i) ==
  IF caller = slots(h)._target_thread
  THEN _io_proxy(h, Streams[i])
  ELSE slots(h)._original[i]

\* A thread reads one of the four properties of a hijacker
read(h, caller, i) ==
  /\ quiet
  /\ slots(h).state = "live"
  /\ got' = [h |-> h, caller |-> caller, stream |-> i,
             value |-> accessor(h, caller, i)]
  /\ UNCHANGED <<breakpoints, systemState, hijack>>

NextHijack ==
  \/ \E h \in Hijackers, t \in Threads : SysHijack(h, t)
  \/ \E h \in Hijackers : capture(h)
  \/ \E h \in Hijackers : _install(h)
  \/ \E h \in Hijackers : _restore_call(h)
  \/ \E h \in Hijackers : __del__(h)
  \/ \E h \in Hijackers : _restore(h)
  \/ \E h \in Hijackers, t \in Threads, i \in 1..Len(Streams) : read(h, t, i)

SpecHijack == Init /\ [][NextHijack]_vars

\* ------------------------------------------------ vocabulary of the properties
id_set(b) == _id[b] # NoId

in_id_index(b) == \E n \in DOMAIN _instances : _instances[n] = b

in_location_index(b) == \E k \in DOMAIN _break_locations : b \in _break_locations[k]

registered(b) == in_id_index(b) /\ in_location_index(b)

\* The position of frame f is the location of b
at_position(b, f) ==
  location(b) \in {frame_location_by_line(f), frame_location_by_function(f)}

\* b is registered, enabled for party p, and the position of f trips it
trips_for(b, f, p) ==
  registered(b) /\ at_position(b, f) /\ enabled[b][p] /\ trip(b, f)

\* ... and its condition, if it has one, is truthy at f
trips_genuinely(b, f, p) ==
  trips_for(b, f, p) /\ (condition(b) = "" \/ f.eval = "truthy")

evaluated == call'.op = "relevant_breakpoints"

\* -------------------------------------------------------------------- C1
\* C1: an evaluation for party P at which a registered breakpoint enabled for P
\* genuinely trips counts a hit; while P's ignore count is positive the
\* evaluation takes one off it and does not return the breakpoint, and at ignore
\* count 0 it returns the breakpoint.  (So ignore(P, n) suppresses the next n
\* genuine trips and the (n+1)-th fires.)
C1_IgnoreSuppressesNextN ==
  [][evaluated =>
       \A b \in Breakpoints :
         trips_genuinely(b, call'.frame, call'.party) =>
           /\ exc' = ""
           /\ hits'[b] = hits[b] + 1
           /\ IF ignored[b][call'.party] > 0
              THEN /\ b \notin relevant'
                   /\ ignored'[b][call'.party] = ignored[b][call'.party] - 1
              ELSE b \in relevant']_vars

\* -------------------------------------------------------------------- C2
\* C2: a temporary breakpoint that trips for the asking party stays registered
\* when the trip is suppressed (ignore count, falsy condition), and is returned
\* and gone from both indices after the evaluation in which it fires, a
\* condition that raises included.
C2_TemporaryRetiresOnFirstFire ==
  [][evaluated =>
       \A b \in Breakpoints :
         (temporary(b) /\ trips_for(b, call'.frame, call'.party)) =>
           IF \/ condition(b) # "" /\ call'.frame.eval = "raises"
              \/ /\ trips_genuinely(b, call'.frame, call'.party)
                 /\ ignored[b][call'.party] = 0
           THEN /\ b \in relevant'
                /\ ~in_id_index(b)'
                /\ ~in_location_index(b)'
           ELSE /\ b \notin relevant'
                /\ registered(b)']_vars

\* -------------------------------------------------------------------- C3
\* C3: when the condition of an enabled, tripping breakpoint raises, the
\* evaluation returns normally, the breakpoint is in its result and the asking
\* party's ignore count is what it was.
C3_RaisingConditionFires ==
  [][evaluated =>
       \A b \in Breakpoints :
         (/\ trips_for(b, call'.frame, call'.party)
          /\ condition(b) # ""
          /\ call'.frame.eval = "raises") =>
           /\ exc' = ""
           /\ b \in relevant'
           /\ ignored'[b][call'.party] = ignored[b][call'.party]]_vars

\* -------------------------------------------------------------------- C4
\* C4: an evaluation adds exactly one to the hits of each breakpoint that the
\* position trips and that is enabled for the asking party, and leaves the hits
\* of every other breakpoint alone; no step lowers hits.
C4_HitsCountTrips ==
  [][/\ evaluated =>
          \A b \in Breakpoints :
            hits'[b] = hits[b] + (IF trips_for(b, call'.frame, call'.party) THEN 1 ELSE 0)
     /\ \A b \in Breakpoints : hits'[b] >= hits[b]]_vars

\* -------------------------------------------------------------------- C5
\* C5: an id, once set, never changes; it is set only by _add, and the first
\* _add sets it; _add on a breakpoint whose id is set leaves the id counter,
\* the id index and the location index as they were.
C5_IdAssignedOnce ==
  [][/\ \A b \in Breakpoints : id_set(b) => _id'[b] = _id[b]
     /\ \A b \in Breakpoints :
          (~id_set(b) /\ id_set(b)') => (call'.op = "_add" /\ call'.bp = b)
     /\ \A b \in Breakpoints :
          (call'.op = "_add" /\ call'.bp = b) =>
             IF id_set(b)
             THEN UNCHANGED <<_id, _id_counter, _instances, _break_locations>>
             ELSE id_set(b)' /\ registered(b)']_vars

\* _add was called again on a breakpoint that got its id before the latest one
C5_Witness ==
  /\ call.op = "_add"
  /\ id_set(call.bp)
  /\ _id[call.bp] < _id_counter
  /\ _id_counter = Cardinality(Breakpoints)

\* -------------------------------------------------------------------- C6
\* C6: an id newly assigned is greater than every id assigned before it (those
\* of removed breakpoints included), and no two breakpoints hold the same id.
C6_IdsIncreaseNeverReused ==
  [][/\ \A b \in Breakpoints :
          (~id_set(b) /\ id_set(b)') =>
             \A c \in Breakpoints : id_set(c) => _id'[b] > _id[c]
     /\ \A b, c \in Breakpoints :
          (b # c /\ id_set(b)' /\ id_set(c)') => _id'[b] # _id'[c]]_vars

\* A breakpoint gets its id while an earlier one, since removed, keeps its own
C6_Witness ==
  /\ call.op = "_add"
  /\ _id[call.bp] = _id_counter
  /\ \E c \in Breakpoints : id_set(c) /\ ~registered(c) /\ _id[c] < _id[call.bp]

\* -------------------------------------------------------------------- C7
\* C7: _remove of a registered breakpoint returns normally, leaves it enabled
\* for no party and in neither index, and changes nothing of any other
\* breakpoint: its index entries, id, hits, enabled and ignored.
C7_RemoveFrame ==
  [][\A b \in Breakpoints :
       (call'.op = "_remove" /\ call'.bp = b /\ registered(b)) =>
          /\ exc' = ""
          /\ \A p \in Parties : ~enabled'[b][p]
          /\ ~in_id_index(b)'
          /\ ~in_location_index(b)'
          /\ _id_counter' = _id_counter
          /\ DOMAIN _break_locations' = DOMAIN _break_locations
          /\ \A c \in Breakpoints \ {b} :
               /\ _id'[c] = _id[c]
               /\ hits'[c] = hits[c]
               /\ enabled'[c] = enabled[c]
               /\ ignored'[c] = ignored[c]
               /\ \A n \in DOMAIN _instances :
                    _instances[n] = c => (n \in DOMAIN _instances' /\ _instances'[n] = c)
               /\ \A k \in DOMAIN _break_locations :
                    c \in _break_locations[k] <=> c \in _break_locations'[k]]_vars

\* A breakpoint was removed while another one, registered at the same location
\* and enabled for a party, stayed
C7_Witness ==
  /\ call.op = "_remove"
  /\ exc = ""
  /\ ~registered(call.bp)
  /\ \E c \in Breakpoints \ {call.bp} :
       /\ registered(c)
       /\ location(c) = location(call.bp)
       /\ \E p \in Parties : enabled[c][p]

\* -------------------------------------------------------------------- C8
\* No registered breakpoint holds the id n: n was never assigned, or its
\* breakpoint has been removed.
unknown_id(n) == \A b \in Breakpoints : _id[b] = n => ~in_location_index(b)

\* C8: resolve_breakpoints changes nothing, and when one of the references is an
\* int that is the id of no registered breakpoint it raises KeyError and returns
\* nothing.
C8_UnknownIdRaises ==
  [][call'.op = "resolve_breakpoints" =>
       /\ UNCHANGED <<_id, _id_counter, _instances, _break_locations,
                      hits, enabled, ignored>>
       /\ (\E i \in DOMAIN call'.arg.items :
             call'.arg.items[i].kind = "int" /\ unknown_id(call'.arg.items[i].n))
            => (exc' = "KeyError" /\ resolved' = <<>>)]_vars

\* The id of a removed breakpoint was looked up, and the lookup raised
C8_Witness ==
  /\ call.op = "resolve_breakpoints"
  /\ call.arg = [iscoll |-> FALSE, items |-> <<IntRef(1)>>]
  /\ \E b \in Breakpoints : _id[b] = 1 /\ ~registered(b)
  /\ exc = "KeyError"

\* -------------------------------------------------------------------- C9
\* No breakpoint is registered at the location the reference r names
names_empty_location(r) ==
  /\ r.kind \in {"str", "tuple"}
  /\ \A b \in Breakpoints :
       in_location_index(b) =>
          (r.kind = "str" \/ location(b) # TupleKey(r.s, r.name, r.n))

\* C9: resolve_breakpoints of location keys at which no breakpoint is
\* registered, passed alone or in a collection, returns the empty list and
\* raises nothing.
C9_UnknownLocationIsEmpty ==
  (/\ call.op = "resolve_breakpoints"
   /\ call.arg.items # <<>>
   /\ \A i \in DOMAIN call.arg.items : names_empty_location(call.arg.items[i]))
    => (exc = "" /\ resolved = <<>>)

\* ------------------------------------------------------------------- C10
\* The breakpoints registered at the location tuple the reference r names
registered_at(r) ==
  {b \in Breakpoints :
     in_location_index(b) /\ location(b) = TupleKey(r.s, r.name, r.n)}

\* out is what the references in items stand for, in their order: the instance,
\* the breakpoint of the id, every breakpoint registered at the location.
RECURSIVE expands(_, _)
expands(out, items) ==
  IF items = <<>> THEN out = <<>>
  ELSE LET r == Head(items)
       IN IF r.kind = "Breakpoint"
          THEN out # <<>> /\ Head(out) = r.bp /\ expands(Tail(out), Tail(items))
          ELSE IF r.kind = "int"
          THEN /\ out # <<>>
               /\ Head(out) = _instances[r.n]
               /\ expands(Tail(out), Tail(items))
          ELSE LET k == Cardinality(registered_at(r))
               IN /\ Len(out) >= k
                  /\ {out[i] : i \in 1..k} = registered_at(r)
                  /\ expands(SubSeq(out, k + 1, Len(out)), Tail(items))

\* C10: resolve_breakpoints of a collection of instances, ids in the id index
\* and location tuples returns, in input order, each instance, the breakpoint of
\* each id and, in the place of each location tuple, the breakpoints registered
\* at it.
C10_MixedReferencesInOrder ==
  (/\ call.op = "resolve_breakpoints"
   /\ call.arg.iscoll
   /\ \A i \in DOMAIN call.arg.items :
        LET r == call.arg.items[i]
        IN /\ r.kind # "str"
           /\ r.kind = "int" => r.n \in DOMAIN _instances)
    => (exc = "" /\ expands(resolved, call.arg.items))

\* ------------------------------------------------------------------- C11
\* C11: for a registered breakpoint that is enabled for the asking party, has no
\* condition and whose ignore count for the party is 0: when it is keyed by line
\* (F, L) an evaluation returns it exactly when the position is file F, line L;
\* when it is keyed by function (F, g) an evaluation returns it only when the
\* position is in file F, inside g, on g's first line, and that first line could
\* be looked up.
C11_LineAndFunctionKeys ==
  [][evaluated =>
       \A b \in Breakpoints :
         (/\ registered(b)
          /\ enabled[b][call'.party]
          /\ condition(b) = ""
          /\ ignored[b][call'.party] = 0) =>
            IF function_name(b) = ""
            THEN b \in relevant' <=>
                   /\ call'.frame.co_filename = filename(b)
                   /\ call'.frame.f_lineno = line_number(b)
            ELSE b \in relevant' =>
                   /\ call'.frame.co_filename = filename(b)
                   /\ call'.frame.co_name = function_name(b)
                   /\ call'.frame.f_back # "KeyError"
                   /\ call'.frame.f_lineno = co_firstlineno(function_name(b))]_vars

\* ------------------------------------------------------------------- C12
\* Thread t has run relevant_breakpoints to its end
has_evaluated(t) == locals(t).op = "relevant_breakpoints" /\ at(t, "done")

\* The position thread t evaluated trips b.  (The threads start with every added
\* breakpoint enabled for every party.)
tripped_by(b, t) ==
  id_set(b) /\ at_position(b, locals(t).frame) /\ trip(b, locals(t).frame)

\* C12: when the two threads have each run relevant_breakpoints to its end,
\* whatever the interleaving, neither evaluation has raised (so none attempted
\* a second removal of a temporary breakpoint), the hits of every breakpoint
\* have grown by exactly the number of evaluations that tripped it, and no
\* ignore count is below zero.
C12_ConcurrentEvaluationsCount ==
  (\A t \in Threads : has_evaluated(t)) =>
     /\ \A t \in Threads : locals(t).exc = ""
     /\ \A b \in Breakpoints :
          hits[b] = Cardinality({t \in Threads : tripped_by(b, t)})
     /\ \A b \in Breakpoints, p \in Parties : ignored[b][p] >= 0

\* ------------------------------------------------------------------- C13
\* Thread t is inside _remove: it has begun and not returned
removing(t) == locals(t).op = "_remove" /\ ~at(t, "done")

\* C13: an evaluation that ends while another thread is inside _remove of a
\* breakpoint set at the evaluated position ends without raising; and once a
\* _remove has returned normally, the id of its breakpoint is in the id index
\* no more.
C13_RemovalDuringEvaluation ==
  [][/\ \A r, e \in Threads :
          (/\ removing(r)
           /\ id_set(locals(r).bp)
           /\ at_position(locals(r).bp, locals(e).frame)
           /\ locals(e).op = "relevant_breakpoints"
           /\ ~at(e, "done")
           /\ locals(e)'.pc = "done") => locals(e)'.exc = ""
     /\ \A r \in Threads :
          (/\ locals(r)'.op = "_remove"
           /\ locals(r)'.pc = "done"
           /\ locals(r)'.exc = "") => _id'[locals(r)'.bp] \notin DOMAIN _instances']_vars

\* ------------------------------------------------------------------- C14
\* Thread t has run _add to its end
has_added(t) == locals(t).op = "_add" /\ at(t, "done")

\* C14: when the two threads have each run _add to its end, on two breakpoints
\* or on the same one, whatever the interleaving, each breakpoint added has an
\* id that no other breakpoint has, is in the id index under that id and under
\* no other, and is in the set of its location.
C14_ConcurrentAddRegistersOnce ==
  (\A t \in Threads : has_added(t)) =>
     \A b \in {locals(t).bp : t \in Threads} :
       /\ id_set(b)
       /\ \A c \in Breakpoints \ {b} : _id[c] # _id[b]
       /\ {n \in DOMAIN _instances : _instances[n] = b} = {_id[b]}
       /\ location(b) \in DOMAIN _break_locations
       /\ b \in _break_locations[location(b)]

\* ------------------------------------------------------------------- C15
\* The four proxy endpoints of hijacker h
proxies(h) == [i \in 1..Len(Streams) |-> _io_proxy(h, Streams[i])]

\* The constructor of h has returned and no _restore of h has begun
hijacked(h) == slots(h).state = "live" /\ ~busy(h) /\ slots(h).disposals = 0

\* What an accessor returned is the proxy endpoint when the target thread asked,
\* and what the target thread had when the hijacker was constructed otherwise
accessor_answers ==
  got.h # "" =>
    got.value = IF got.caller = slots(got.h)._target_thread
                THEN _io_proxy(got.h, Streams[got.stream])
                ELSE slots(got.h).before[got.stream]

\* C15 as stated: each accessor returns the proxy endpoint to the target thread
\* and the endpoint captured at construction to any other thread; and from the
\* return of the constructor to the first disposal the four streams of the
\* target thread are the four proxy endpoints of the hijacker, while a thread
\* that is the target of no hijacker has its own streams.
C15_ProxiesInPlaceUntilDisposal ==
  /\ accessor_answers
  /\ \A h \in Hijackers :
       hijacked(h) => streams_of(slots(h)._target_thread) = proxies(h)
  /\ \A t \in Threads :
       (\A h \in Hijackers : slots(h)._target_thread # t) =>
          streams_of(t) = [i \in 1..Len(Streams) |-> Endpoint(t, Streams[i])]

\* C15, amended: each accessor returns the proxy endpoint to the target thread
\* and the endpoint captured at construction to any other thread; when the
\* constructor returns, the four streams of the target thread are the four
\* proxy endpoints of the hijacker; and the system state of a thread changes
\* only in a statement of a hijacker whose target is that thread (so the
\* proxies stay until the next constructor or _restore on the same thread, and
\* no other thread's streams are touched).
C15_ProxiesInPlaceUntilNextInstallOrRestore ==
  [][/\ accessor_answers'
     /\ \A h \in Hijackers :
          (slots(h).state = "constructing" /\ slots(h)'.state = "live") =>
             streams_of(slots(h)._target_thread)' = proxies(h)
     /\ \A t \in Threads :
          systemState'[t] # systemState[t] =>
             \E g \in Hijackers :
               slots(g)' # slots(g) /\ slots(g)'._target_thread = t]_vars

\* A thread other than the target read an accessor of a hijacker whose proxies
\* are in place, and got the target's own endpoint; the reader's own streams are
\* its own
C15_Witness ==
  /\ got.h # ""
  /\ hijacked(got.h)
  /\ got.caller # slots(got.h)._target_thread
  /\ got.value = Endpoint(slots(got.h)._target_thread, Streams[got.stream])
  /\ streams_of(slots(got.h)._target_thread) = proxies(got.h)
  /\ streams_of(got.caller) = [i \in 1..Len(Streams) |-> Endpoint(got.caller, Streams[i])]

\* ------------------------------------------------------------------- C16
\* C16: when the first disposal of a hijacker (a called _restore, or __del__)
\* returns, the four streams of the target thread are what they were before the
\* hijack; and no statement of a later disposal changes anything of the system
\* state of any thread, whatever was installed on the target thread since.
C16_DisposedOnceLaterDisposalsNoOp ==
  [][\A h \in Hijackers :
       /\ (slots(h).disposals = 0 /\ slots(h)'.disposals = 1) =>
             streams_of(slots(h)._target_thread)' = slots(h).before
       /\ (slots(h).disposals >= 1 /\ slots(h)' # slots(h)) =>
             systemState' = systemState]_vars

\* ------------------------------------------------------------------- C17
\* C17: in every state in which a constructor is running, the four streams the
\* target thread reads are either all what they were when the constructor was
\* entered or all the proxy endpoints of the hijacker, never some of each; and
\* each captured original is the endpoint in place when its proxy replaces it.
C17_ConstructionAtomic ==
  \A h \in Hijackers :
    slots(h).state = "constructing" =>
      /\ streams_of(slots(h)._target_thread) \in {slots(h).before, proxies(h)}
      /\ \A i \in 1..Len(Streams) :
           slots(h).pc = 43 + i => slots(h)._original[i] = _thread_sys(h, i)

\* ------------------------------------------------------------------- C18
\* C18: an evaluation at which a breakpoint enabled for the asking party trips
\* and its condition evaluates to a falsy value does not return the breakpoint,
\* adds one to its hits, and changes nothing else of it: the ignore counts and
\* enabled flags are what they were and the breakpoint is still registered.
C18_FalsyConditionOnlyCountsHit ==
  [][evaluated =>
       \A b \in Breakpoints :
         (/\ trips_for(b, call'.frame, call'.party)
          /\ condition(b) # ""
          /\ call'.frame.eval = "falsy") =>
            /\ b \notin relevant'
            /\ hits'[b] = hits[b] + 1
            /\ ignored'[b] = ignored[b]
            /\ enabled'[b] = enabled[b]
            /\ _id'[b] = _id[b]
            /\ registered(b)']_vars

\* ------------------------------------------------------------------- C19
\* The class and breakpoint state an evaluation for party p starts from, with
\* the enabled flags and ignore counts of every other party taken away
without_others(p) ==
  [hits |-> hits,
   ignored |-> [b \in Breakpoints |->
                  [q \in Parties |-> IF q = p THEN ignored[b][q] ELSE 0]],
   enabled |-> [b \in Breakpoints |->
                  [q \in Parties |-> IF q = p THEN enabled[b][q] ELSE FALSE]],
   inst |-> _instances, locs |-> _break_locations, relevant |-> {}, exc |-> ""]

under_own_id(b) ==
  id_set(b) /\ _id[b] \in DOMAIN _instances /\ _instances[_id[b]] = b

\* b is a member of the set the location index holds for the location of b
at_own_location(b) ==
  location(b) \in DOMAIN _break_locations /\ b \in _break_locations[location(b)]

\* C20: after every call a breakpoint is in the id index under its id exactly
\* when it is in the location index's set for its own location; and a
\* breakpoint that was removed (its id is set and it is in the id index no
\* more) is put back into neither index by any later call, _add included.
C20_IndicesAgree ==
  [][\A b \in Breakpoints :
       /\ under_own_id(b)' <=> at_own_location(b)'
       /\ (id_set(b) /\ ~in_id_index(b)) =>
             (~in_id_index(b)' /\ ~in_location_index(b)')]_vars

\* _add was called on a removed breakpoint while another one is registered
C20_Witness ==
  /\ call.op = "_add"
  /\ id_set(call.bp)
  /\ ~in_id_index(call.bp)
  /\ ~in_location_index(call.bp)
  /\ \E c \in Breakpoints \ {call.bp} : under_own_id(c) /\ at_own_location(c)

====
